---- MODULE Spec2Model ----
(***************************************************************************)
(* Model of transcribe_split.py: main() as a sequential state machine.     *)
(* One action per statement group of main(); the environment (argv, the    *)
(* OPENAI_API_KEY variable, the audio file, the outcome of every library   *)
(* call) is chosen nondeterministically.                                   *)
(*                                                                         *)
(* Strings that the program parses or builds are sequences of one-token    *)
(* strings, so that int() and the f-string formatting are computed.        *)
(* audioFiles, textFiles and fullFile hold the files written by this run.  *)
(***************************************************************************)
EXTENDS Integers, Sequences, FiniteSets

\* ---------------------------------------------------------------- bounds
MaxDurMinutes == 3
MaxArgLen == 2

\* ------------------------------------------------------ program constants
DefaultChunkMinutes == 20
MsPerMinute == 60 * 1000
ExitFailure == 1

\* ------------------------------------------------------------ input sets
\* sub-minute remainders of the audio length; none is a decimal tie of
\* the "%.1f" rendering whose binary value is inexact (see Fmt1)
Remainders == {0, 1, 15000, 30000, 45000, 59999}
Durations == {m * MsPerMinute + r : m \in 0..MaxDurMinutes, r \in Remainders}
ArgChars == {"-", "0", "1", "2", "x"}
ArgStrings == UNION {[1..n -> ArgChars] : n \in 1..MaxArgLen}
ProgArg == <<"transcribe_split.py">>
AudioArg == <<"audio.mp3">>
Argvs == {<<ProgArg>>, <<ProgArg, AudioArg>>}
             \cup {<<ProgArg, AudioArg, s>> : s \in ArgStrings}
EnvValues == {"None", "", "sk"}
Texts == {"a", "b"}
NoFile == <<"<absent>">>

VARIABLES argv, env_key, path_exists, audio_len,
          pc, chunk_minutes, duration_ms, chunk_ms, num_chunks, i,
          start_ms, end_ms, text, full_transcript_parts,
          audioFiles, textFiles, fullFile,
          exit_code, error, stdout, log, windows

vars == <<argv, env_key, path_exists, audio_len,
          pc, chunk_minutes, duration_ms, chunk_ms, num_chunks, i,
          start_ms, end_ms, text, full_transcript_parts,
          audioFiles, textFiles, fullFile,
          exit_code, error, stdout, log, windows>>

inputs == <<argv, env_key, path_exists, audio_len>>
locals == <<chunk_minutes, duration_ms, chunk_ms, num_chunks, i,
            start_ms, end_ms, text, full_transcript_parts>>
disk == <<audioFiles, textFiles, fullFile>>

\* -------------------------------------------------------- pure functions
Digits == <<"0", "1", "2", "3", "4", "5", "6", "7", "8", "9">>
DigitVal(c) == CHOOSE d \in 0..9 : Digits[d + 1] = c
IsDigit(c) == \E d \in 0..9 : Digits[d + 1] = c

RECURSIVE DigitsVal(_)
DigitsVal(s) ==
    IF s = <<>> THEN 0
    ELSE 10 * DigitsVal(SubSeq(s, 1, Len(s) - 1)) + DigitVal(s[Len(s)])

AllDigits(s) == Len(s) >= 1 /\ \A k \in 1..Len(s) : IsDigit(s[k])

\* int(sys.argv[2]): optional sign, then one or more decimal digits
IntOk(s) ==
    IF Len(s) >= 1 /\ s[1] = "-" THEN AllDigits(Tail(s)) ELSE AllDigits(s)
IntVal(s) ==
    IF s[1] = "-" THEN 0 - DigitsVal(Tail(s)) ELSE DigitsVal(s)

\* str(n) for n >= 0
RECURSIVE Str(_)
Str(n) == IF n < 10 THEN <<Digits[n + 1]>>
          ELSE Str(n \div 10) \o <<Digits[(n % 10) + 1]>>

CeilDivFloor(a, b) ==
    IF b > 0 THEN a \div b
    ELSE 0 - (a \div (0 - b))

\* math.ceil(a / b) for a >= 0, b # 0 (below 2^53 the float quotient
\* rounds to the same integer as the exact one)
CeilDiv(a, b) ==
    IF b > 0 THEN (a + b - 1) \div b
    ELSE 0 - (a \div (0 - b))

MinRight(a, b) == b

Min(a, b) == IF a <= b THEN a ELSE b

\* f"{ms / 60000:.1f}": the float quotient rounded to the nearest tenth of
\* a minute. A decimal tie (r = half) goes to the even tenth when the
\* quotient is an exact binary fraction, i.e. a multiple of a quarter
\* minute (0.25 -> "0.2", 0.75 -> "0.8"); the other ties depend on the
\* rounding of the float division and are kept out of Remainders.
Tenths(ms) ==
    LET q == ms \div (MsPerMinute \div 10)
        r == ms % (MsPerMinute \div 10)
        half == MsPerMinute \div 20
    IN IF r < half THEN q
       ELSE IF r > half THEN q + 1
       ELSE IF q % 2 = 0 THEN q ELSE q + 1
Fmt1(ms) == Str(Tenths(ms) \div 10) \o <<".">> \o Str(Tenths(ms) % 10)

\* the token "--" stands for the en dash (U+2013) of the f-string
Header(part_num, s_ms, e_ms) ==
    <<"### ", "Part ">> \o Str(part_num) \o <<" (">> \o Fmt1(s_ms)
        \o <<"--">> \o Fmt1(e_ms) \o <<" min)">>

\* f"### Part {part_num} ({start_min:.1f}--{end_min:.1f} min)\n\n{text}"
Entry(part_num, s_ms, e_ms, t) ==
    Header(part_num, s_ms, e_ms) \o <<"\n\n">> \o <<t>>

RECURSIVE JoinTrailing(_)
JoinTrailing(parts) ==
    IF parts = <<>> THEN <<>>
    ELSE parts[1] \o <<"\n\n">> \o JoinTrailing(Tail(parts))

\* "\n\n".join(parts)
RECURSIVE Join(_)
Join(parts) ==
    IF parts = <<>> THEN <<>>
    ELSE IF Len(parts) = 1 THEN parts[1]
    ELSE parts[1] \o <<"\n\n">> \o Join(Tail(parts))

NoError == [type |-> "none", stage |-> "none", names_part |-> 0]
Err(t, s, k) == [type |-> t, stage |-> s, names_part |-> k]
Ev(op, k) == [op |-> op, k |-> k]

\* ------------------------------------------------------------------ Init
Init ==
    /\ argv \in Argvs
    /\ env_key \in EnvValues
    /\ path_exists \in BOOLEAN
    /\ audio_len \in Durations
    /\ pc = "args"
    /\ chunk_minutes = 0
    /\ duration_ms = 0
    /\ chunk_ms = 0
    /\ num_chunks = 0
    /\ i = 0
    /\ start_ms = 0
    /\ end_ms = 0
    /\ text = ""
    /\ full_transcript_parts = <<>>
    /\ audioFiles = <<>>
    /\ textFiles = <<>>
    /\ fullFile = NoFile
    /\ exit_code = -1
    /\ error = NoError
    /\ stdout = <<>>
    /\ log = <<>>
    /\ windows = <<>>

\* -------------------------------------------------------------- helpers
Exit1(msg) ==
    /\ pc' = "exited"
    /\ exit_code' = ExitFailure
    /\ stdout' = Append(stdout, msg)

\* an exception that nothing catches: traceback, interpreter status 1
Raise(e) ==
    /\ pc' = "raised"
    /\ exit_code' = ExitFailure
    /\ error' = e

Put(files, k, content) ==
    [j \in (DOMAIN files) \cup {k} |-> IF j = k THEN content ELSE files[j]]

\* -------------------------------------------------------------- startup
\* lines 31-33: too few arguments
UsageExit ==
    /\ pc = "args"
    /\ Len(argv) < 2
    /\ Exit1("usage")
    /\ UNCHANGED <<inputs, locals, disk, error, log, windows>>

\* lines 31, 35: audio_path taken from argv[1]
ArgsOk ==
    /\ pc = "args"
    /\ ~(Len(argv) < 2)
    /\ pc' = "chunk_arg"
    /\ UNCHANGED <<inputs, locals, disk, exit_code, error, stdout, log,
                   windows>>

\* lines 38-40: chunk_minutes = int(sys.argv[2])
ParseChunkMinutes ==
    /\ pc = "chunk_arg"
    /\ Len(argv) >= 3
    /\ IntOk(argv[3])
    /\ chunk_minutes' = IntVal(argv[3])
    /\ pc' = "getenv"
    /\ UNCHANGED <<inputs, duration_ms, chunk_ms, num_chunks, i, start_ms,
                   end_ms, text, full_transcript_parts, disk, exit_code,
                   error, stdout, log, windows>>

\* lines 41-43: ValueError from int()
ChunkMinutesNotInt ==
    /\ pc = "chunk_arg"
    /\ Len(argv) >= 3
    /\ ~IntOk(argv[3])
    /\ Exit1("chunk_minutes must be an integer")
    /\ UNCHANGED <<inputs, locals, disk, error, log, windows>>

\* lines 44-45
DefaultChunk ==
    /\ pc = "chunk_arg"
    /\ ~(Len(argv) >= 3)
    /\ chunk_minutes' = DefaultChunkMinutes
    /\ pc' = "getenv"
    /\ UNCHANGED <<inputs, duration_ms, chunk_ms, num_chunks, i, start_ms,
                   end_ms, text, full_transcript_parts, disk, exit_code,
                   error, stdout, log, windows>>

\* lines 48-53: os.getenv gives None or "" -> RuntimeError
NoApiKey ==
    /\ pc = "getenv"
    /\ env_key \in {"None", ""}
    /\ log' = Append(log, Ev("getenv", 0))
    /\ Raise(Err("RuntimeError", "config", 0))
    /\ UNCHANGED <<inputs, locals, disk, stdout, windows>>

MakeClientNoneOnly ==
    /\ pc = "getenv"
    /\ env_key # "None"
    /\ log' = Append(log, Ev("getenv", 0))
    /\ pc' = "exists"
    /\ UNCHANGED <<inputs, locals, disk, exit_code, error, stdout, windows>>

\* lines 48-55: client built from the key
MakeClient ==
    /\ pc = "getenv"
    /\ env_key \notin {"None", ""}
    /\ log' = Append(log, Ev("getenv", 0))
    /\ pc' = "exists"
    /\ UNCHANGED <<inputs, locals, disk, exit_code, error, stdout, windows>>

\* lines 57-58
AudioNotFound ==
    /\ pc = "exists"
    /\ ~path_exists
    /\ log' = Append(log, Ev("exists", 0))
    /\ Raise(Err("FileNotFoundError", "input", 0))
    /\ UNCHANGED <<inputs, locals, disk, stdout, windows>>

AudioFoundNoCheck ==
    /\ pc = "exists"
    /\ log' = Append(log, Ev("exists", 0))
    /\ pc' = "load"
    /\ UNCHANGED <<inputs, locals, disk, exit_code, error, stdout, windows>>

\* lines 57, 60-64
AudioFound ==
    /\ pc = "exists"
    /\ path_exists
    /\ log' = Append(log, Ev("exists", 0))
    /\ pc' = "load"
    /\ UNCHANGED <<inputs, locals, disk, exit_code, error, stdout, windows>>

\* lines 67-71: AudioSegment.from_file, duration_ms = len(audio)
LoadAudio ==
    /\ pc = "load"
    /\ log' = Append(log, Ev("load", 0))
    /\ duration_ms' = audio_len
    /\ pc' = "plan"
    /\ UNCHANGED <<inputs, chunk_minutes, chunk_ms, num_chunks, i, start_ms,
                   end_ms, text, full_transcript_parts, disk, exit_code,
                   error, stdout, windows>>

\* line 68: the decoder raises
LoadAudioFail ==
    /\ pc = "load"
    /\ log' = Append(log, Ev("load", 0))
    /\ Raise(Err("DecodeError", "load", 0))
    /\ UNCHANGED <<inputs, locals, disk, stdout, windows>>

\* lines 74-78
Plan ==
    /\ pc = "plan"
    /\ chunk_minutes * 60 * 1000 # 0
    /\ chunk_ms' = chunk_minutes * 60 * 1000
    /\ num_chunks' = CeilDiv(duration_ms, chunk_ms')
    /\ full_transcript_parts' = <<>>
    /\ i' = 0
    /\ pc' = "loop"
    /\ UNCHANGED <<inputs, chunk_minutes, duration_ms, start_ms, end_ms,
                   text, disk, exit_code, error, stdout, log, windows>>

\* lines 74-75: duration_ms / 0
PlanZeroDivision ==
    /\ pc = "plan"
    /\ chunk_minutes * 60 * 1000 = 0
    /\ chunk_ms' = chunk_minutes * 60 * 1000
    /\ Raise(Err("ZeroDivisionError", "plan", 0))
    /\ UNCHANGED <<inputs, chunk_minutes, duration_ms, num_chunks, i,
                   start_ms, end_ms, text, full_transcript_parts, disk,
                   stdout, log, windows>>

\* ----------------------------------------------------------- chunk loop
\* lines 81-89: next value of range(num_chunks), window of the part
NextChunk ==
    /\ pc = "loop"
    /\ i < num_chunks
    /\ start_ms' = i * chunk_ms
    /\ end_ms' = Min((i + 1) * chunk_ms, duration_ms)
    /\ windows' = Append(windows, [index |-> i + 1, start_ms |-> start_ms',
                                   end_ms |-> end_ms'])
    /\ stdout' = Append(stdout, "=== Part")
    /\ pc' = "export"
    /\ UNCHANGED <<inputs, chunk_minutes, duration_ms, chunk_ms, num_chunks,
                   i, text, full_transcript_parts, disk, exit_code, error,
                   log>>

\* line 81: range exhausted
LoopDone ==
    /\ pc = "loop"
    /\ ~(i < num_chunks)
    /\ pc' = "merge"
    /\ UNCHANGED <<inputs, locals, disk, exit_code, error, stdout, log,
                   windows>>

\* lines 91-97: audio[start_ms:end_ms] exported to <basename>_part_<n>.mp3
ExportChunk ==
    /\ pc = "export"
    /\ log' = Append(log, Ev("export", i + 1))
    /\ audioFiles' = Put(audioFiles, i + 1, <<start_ms, end_ms>>)
    /\ pc' = "transcribe"
    /\ UNCHANGED <<inputs, locals, textFiles, fullFile, exit_code, error,
                   stdout, windows>>

\* line 97: export raises; the library may or may not have created the
\* output file, and its message may or may not carry the output path
ExportFail ==
    /\ pc = "export"
    /\ log' = Append(log, Ev("export", i + 1))
    /\ \E created \in BOOLEAN :
          audioFiles' = IF created THEN Put(audioFiles, i + 1, <<>>)
                        ELSE audioFiles
    /\ \E n \in {0, i + 1} : Raise(Err("ExportError", "export", n))
    /\ UNCHANGED <<inputs, locals, textFiles, fullFile, stdout, windows>>

TranscribeRetry ==
    /\ pc = "transcribe"
    /\ log' = Append(log, Ev("transcribe", i + 1))
    /\ \E t \in Texts : text' = t
    /\ \E again \in BOOLEAN : pc' = IF again THEN "transcribe" ELSE "write"
    /\ UNCHANGED <<inputs, chunk_minutes, duration_ms, chunk_ms, num_chunks,
                   i, start_ms, end_ms, full_transcript_parts, disk,
                   exit_code, error, stdout, windows>>

\* lines 99-110: one call of client.audio.transcriptions.create
Transcribe ==
    /\ pc = "transcribe"
    /\ log' = Append(log, Ev("transcribe", i + 1))
    /\ \E t \in Texts : text' = t
    /\ pc' = "write"
    /\ UNCHANGED <<inputs, chunk_minutes, duration_ms, chunk_ms, num_chunks,
                   i, start_ms, end_ms, full_transcript_parts, disk,
                   exit_code, error, stdout, windows>>

TranscribeFailCleanup ==
    /\ pc = "transcribe"
    /\ log' = Append(log, Ev("transcribe", i + 1))
    /\ audioFiles' = [j \in (DOMAIN audioFiles) \ {i + 1} |-> audioFiles[j]]
    /\ Raise(Err("APIError", "transcribe", 0))
    /\ UNCHANGED <<inputs, locals, textFiles, fullFile, stdout, windows>>

\* lines 103-108: the call raises; the client's exception carries the
\* service's cause and nothing of the script's part number
TranscribeFail ==
    /\ pc = "transcribe"
    /\ log' = Append(log, Ev("transcribe", i + 1))
    /\ Raise(Err("APIError", "transcribe", 0))
    /\ UNCHANGED <<inputs, locals, disk, stdout, windows>>

\* lines 112-123: transcript file written, entry appended to the parts
WriteTranscript ==
    /\ pc = "write"
    /\ log' = Append(log, Ev("write", i + 1))
    /\ textFiles' = Put(textFiles, i + 1, <<text>>)
    /\ stdout' = Append(stdout, "Saved transcript")
    /\ full_transcript_parts' =
          Append(full_transcript_parts, Entry(i + 1, start_ms, end_ms, text))
    /\ i' = i + 1
    /\ pc' = "loop"
    /\ UNCHANGED <<inputs, chunk_minutes, duration_ms, chunk_ms, num_chunks,
                   start_ms, end_ms, text, audioFiles, fullFile, exit_code,
                   error, windows>>

\* lines 116-117: open() raises OSError (its message has the file name,
\* hence the part number), or write() raises after open() truncated
WriteTranscriptFail ==
    /\ pc = "write"
    /\ log' = Append(log, Ev("write", i + 1))
    /\ \E created \in BOOLEAN :
          /\ textFiles' = IF created THEN Put(textFiles, i + 1, <<>>)
                          ELSE textFiles
          /\ Raise(Err("OSError", "write",
                       IF created THEN 0 ELSE i + 1))
    /\ UNCHANGED <<inputs, locals, audioFiles, fullFile, stdout, windows>>

\* --------------------------------------------------------------- merge
\* lines 125-131
WriteFull ==
    /\ pc = "merge"
    /\ log' = Append(log, Ev("write_full", 0))
    /\ fullFile' = Join(full_transcript_parts)
    /\ stdout' = Append(stdout, "Done.")
    /\ pc' = "done"
    /\ exit_code' = 0
    /\ UNCHANGED <<inputs, locals, audioFiles, textFiles, error, windows>>

\* lines 127-128: open() or write() raises
WriteFullFail ==
    /\ pc = "merge"
    /\ log' = Append(log, Ev("write_full", 0))
    /\ \E created \in BOOLEAN :
          fullFile' = IF created THEN <<>> ELSE fullFile
    /\ Raise(Err("OSError", "merge", 0))
    /\ UNCHANGED <<inputs, locals, audioFiles, textFiles, stdout, windows>>

Next ==
    \/ UsageExit
    \/ ArgsOk
    \/ ParseChunkMinutes
    \/ ChunkMinutesNotInt
    \/ DefaultChunk
    \/ NoApiKey
    \/ MakeClient
    \/ AudioNotFound
    \/ AudioFound
    \/ LoadAudio
    \/ LoadAudioFail
    \/ Plan
    \/ PlanZeroDivision
    \/ NextChunk
    \/ LoopDone
    \/ ExportChunk
    \/ ExportFail
    \/ Transcribe
    \/ TranscribeFail
    \/ WriteTranscript
    \/ WriteTranscriptFail
    \/ WriteFull
    \/ WriteFullFail

Spec == Init /\ [][Next]_vars

\* ------------------------------------------------- observation helpers
IsLoopEv(e) == e.op \in {"export", "transcribe", "write"}
LoopLog == SelectSeq(log, IsLoopEv)
Positions(op) == {p \in 1..Len(log) : log[p].op = op}
Calls(op) == Cardinality(Positions(op))
StartupPcs == {"args", "chunk_arg", "getenv", "exists", "load", "plan"}
DiskUntouched == audioFiles = <<>> /\ textFiles = <<>> /\ fullFile = NoFile
WinLen(w) == w.end_ms - w.start_ms
WellFormedArgs == Len(argv) >= 2 /\ (Len(argv) >= 3 => IntOk(argv[3]))
\* the audio has been decoded and its length taken
Loaded == Calls("load") = 1 /\ error.stage # "load"
\* the planner has run with a positive chunk length
Planned == Loaded /\ pc # "plan" /\ chunk_minutes >= 1
LoopFinished == pc \in {"merge", "done"} \/ error.stage = "merge"
FailedInWindow == pc = "raised"
                    /\ error.stage \in {"export", "transcribe", "write"}

\* ---------------------------------------------------------------- C1
\* C1: for duration_ms >= 0 and chunk_minutes >= 1 the windows computed by
\* the chunk loop are numbered 1.., start at 0, each starts where the
\* previous one ends, each has start_ms < end_ms, and once the loop has
\* finished the last one ends at duration_ms, every sampled instant of
\* [0, duration_ms) lies in exactly one window, and their number is the
\* least n with n * chunk_minutes * 60000 >= duration_ms (0 for an empty
\* audio).
C1_WindowsPartition ==
    Planned =>
      /\ \A k \in 1..Len(windows) :
            /\ windows[k].index = k
            /\ windows[k].start_ms =
                 (IF k = 1 THEN 0 ELSE windows[k - 1].end_ms)
            /\ windows[k].start_ms < windows[k].end_ms
            /\ windows[k].end_ms <= duration_ms
      /\ LoopFinished =>
            LET n == Len(windows)
                c == chunk_minutes * 60000
            IN /\ n * c >= duration_ms
               /\ n > 0 => (n - 1) * c < duration_ms
               /\ n > 0 => windows[n].end_ms = duration_ms
               /\ duration_ms = 0 => n = 0
               /\ \A t \in {d - e : d \in Durations, e \in {0, 1}} :
                     (0 <= t /\ t < duration_ms) =>
                        Cardinality({k \in 1..n :
                            windows[k].start_ms <= t
                              /\ t < windows[k].end_ms}) = 1

C1_Witness ==
    /\ pc = "done"
    /\ chunk_minutes = 1
    /\ Len(windows) = 3
    /\ windows[3].end_ms = duration_ms
    /\ WinLen(windows[3]) = 15000

\* ---------------------------------------------------------------- C6
\* C6: with chunk_minutes >= 1 no window is longer than
\* chunk_minutes * 60000 ms and every window that has a successor is
\* exactly that long.
C6_WindowLength ==
    Planned =>
      \A k \in 1..Len(windows) :
         /\ WinLen(windows[k]) <= chunk_minutes * 60000
         /\ k < Len(windows) => WinLen(windows[k]) = chunk_minutes * 60000

C6_Witness ==
    /\ pc = "done"
    /\ chunk_minutes = 2
    /\ Len(windows) = 2
    /\ WinLen(windows[1]) = 120000
    /\ WinLen(windows[2]) = 1

\* ---------------------------------------------------------------- C2
\* C2 as stated: when the transcription call fails on window k, the audio
\* and text files of every window j < k exist, no audio or text file of
\* window k or of any later window exists, and no merged file is written.
C2_NoFileForFailedWindow ==
    (pc = "raised" /\ error.stage = "transcribe") =>
       LET k == i + 1
       IN /\ \A j \in 1..(k - 1) :
                j \in DOMAIN audioFiles /\ j \in DOMAIN textFiles
          /\ \A j \in (DOMAIN audioFiles) \cup (DOMAIN textFiles) : j < k
          /\ fullFile = NoFile
          /\ Calls("write_full") = 0

\* C2 amended: when the transcription call fails on window k, the audio
\* files of the windows j <= k and the text files of the windows j < k
\* exist, no text file of window k and no file of a later window exists,
\* and no merged file is written.
C2_FilesAtTranscribeFailure ==
    (pc = "raised" /\ error.stage = "transcribe") =>
       LET k == i + 1
       IN /\ DOMAIN audioFiles = 1..k
          /\ DOMAIN textFiles = 1..(k - 1)
          /\ \A j \in 1..k : audioFiles[j] =
                <<windows[j].start_ms, windows[j].end_ms>>
          /\ fullFile = NoFile
          /\ Calls("write_full") = 0

C2_Witness ==
    /\ pc = "raised"
    /\ error.stage = "transcribe"
    /\ i + 1 = 2
    /\ num_chunks = 3

\* ---------------------------------------------------------------- C3
\* C3 as stated: a chunk_minutes argument that is not an integer, or is
\* zero or negative, ends the run with a message and exit code 1 before
\* the credential is read, the audio is loaded or any file is written.
C3_NonPositiveIsUsageError ==
    (/\ Len(argv) >= 3
     /\ (~IntOk(argv[3]) \/ IntVal(argv[3]) <= 0)
     /\ pc \notin {"args", "chunk_arg"}) =>
        /\ pc = "exited"
        /\ exit_code = 1
        /\ stdout # <<>>
        /\ log = <<>>
        /\ DiskUntouched

\* ---------------------------------------------------------------- C4
\* C4: with well-formed arguments and OPENAI_API_KEY unset or empty the
\* run stops with the RuntimeError of the credential check: the audio
\* path is never tested, the audio never loaded, no file written; this
\* does not depend on the audio path existing.
C4_NoCredentialNoFileIO ==
    (WellFormedArgs /\ env_key \in {"None", ""}) =>
        /\ pc \in {"args", "chunk_arg", "getenv", "raised"}
        /\ pc = "raised" =>
              /\ error = Err("RuntimeError", "config", 0)
              /\ exit_code # 0
        /\ Calls("exists") = 0
        /\ Calls("load") = 0
        /\ Len(LoopLog) = 0
        /\ DiskUntouched

C4_Witness ==
    /\ pc = "raised"
    /\ error.type = "RuntimeError"
    /\ env_key = ""
    /\ path_exists
    /\ Len(argv) = 3

\* ---------------------------------------------------------------- C5
\* the merged text the claim describes: for k = 1, 2, ... the header
\* (with the given lead), a blank line, the text of window k, and one
\* blank line between consecutive entries
RECURSIVE MergedUpTo(_, _)
MergedUpTo(k, lead) ==
    IF k = 0 THEN <<>>
    ELSE MergedUpTo(k - 1, lead)
           \o (IF k > 1 THEN <<"\n\n">> ELSE <<>>)
           \o lead \o Str(k) \o <<" (">> \o Fmt1(windows[k].start_ms)
           \o <<"--">> \o Fmt1(windows[k].end_ms) \o <<" min)">>
           \o <<"\n\n">> \o textFiles[k]

\* C5 as stated: on a completed run the merged file is the concatenation,
\* for index 1..num_chunks in order, of the header line
\* "Part <index> (<start_min>--<end_min> min)", a blank line and the
\* window's text, with one blank line between entries and none around.
C5_MergedHeaderPart ==
    pc = "done" => fullFile = MergedUpTo(Len(windows), <<"Part ">>)

\* C5 amended: the same, with the header line
\* "### Part <index> (<start_min>--<end_min> min)".
C5_MergedContent ==
    pc = "done" => fullFile = MergedUpTo(Len(windows), <<"### ", "Part ">>)

C5_Witness ==
    /\ pc = "done"
    /\ Len(windows) = 3
    /\ textFiles[1] # textFiles[2]
    /\ fullFile # <<>>

\* ---------------------------------------------------------------- C7
\* C7 as stated: a failure of the export, the transcription call or the
\* transcript write on window k ends the run with a non-zero status and
\* an error that names k, and no later window is processed.
C7_ErrorNamesWindow ==
    FailedInWindow =>
        /\ exit_code # 0
        /\ error.names_part = i + 1
        /\ \A p \in 1..Len(LoopLog) : LoopLog[p].k <= i + 1

\* ---------------------------------------------------------------- C8
StepOf(p) == <<"export", "transcribe", "write">>[((p - 1) % 3) + 1]

\* C8: the export, transcription and text-write steps of a run, failed
\* attempts included, are a prefix of export 1, transcribe 1, write 1,
\* export 2, transcribe 2, write 2, ...: each step once per window, in
\* this order, windows in increasing index, nothing after a failure.
C8_LinearSteps ==
    /\ \A p \in 1..Len(LoopLog) :
          LoopLog[p] = Ev(StepOf(p), ((p - 1) \div 3) + 1)
    /\ \A k \in 1..Len(windows) :
          \A op \in {"export", "transcribe", "write"} :
             Cardinality({p \in 1..Len(log) : log[p] = Ev(op, k)}) <= 1
    /\ FailedInWindow =>
          /\ LoopLog[Len(LoopLog)] = Ev(error.stage, i + 1)
          /\ Calls("write_full") = 0

C8_Witness ==
    /\ pc = "raised"
    /\ error.stage = "write"
    /\ Len(LoopLog) = 6

\* ---------------------------------------------------------------- C9
\* C9: the startup checks run in the order arguments, credential, audio
\* path, and the first failing one decides the outcome: a missing
\* audio_path or a non-integer chunk_minutes exits with code 1 and a
\* message before the credential is read; the credential is read before
\* the path is tested; a missing credential raises before the path is
\* tested; a missing audio file (credential present, arguments
\* well-formed) raises FileNotFoundError before the audio is loaded and
\* before any file is written.
C9_StartupOrder ==
    /\ (Len(argv) < 2 /\ pc # "args") =>
          /\ pc = "exited" /\ exit_code = 1 /\ stdout = <<"usage">>
          /\ log = <<>> /\ DiskUntouched
    /\ (Len(argv) >= 3 /\ ~IntOk(argv[3]) /\ pc \notin {"args", "chunk_arg"}) =>
          /\ pc = "exited" /\ exit_code = 1
          /\ stdout = <<"chunk_minutes must be an integer">>
          /\ log = <<>> /\ DiskUntouched
    /\ \A p \in Positions("exists") : \E q \in Positions("getenv") : q < p
    /\ \A p \in Positions("load") : \E q \in Positions("exists") : q < p
    /\ (WellFormedArgs /\ env_key \in {"None", ""}
          /\ pc \notin {"args", "chunk_arg", "getenv"}) =>
          /\ pc = "raised" /\ error.type = "RuntimeError"
          /\ Calls("exists") = 0
    /\ (WellFormedArgs /\ env_key \notin {"None", ""} /\ ~path_exists
          /\ pc \notin {"args", "chunk_arg", "getenv", "exists"}) =>
          /\ pc = "raised" /\ error.type = "FileNotFoundError"
          /\ exit_code # 0
          /\ Calls("load") = 0
          /\ DiskUntouched

C9_Witness ==
    /\ pc = "raised"
    /\ error.type = "FileNotFoundError"
    /\ env_key = "sk"
    /\ ~path_exists
    /\ log = <<Ev("getenv", 0), Ev("exists", 0)>>

\* --------------------------------------------------------------- C10
\* C10 as stated: the merged file is written at most once, only after
\* every window has gone through its three steps; when it is written,
\* exactly num_chunks transcription calls have been made, the audio and
\* text files of every index 1..num_chunks exist and the parts list has
\* num_chunks elements; an empty audio gives a run without error, no
\* transcription call, no per-chunk file and an empty merged file.
C10_MergedAfterAllWindows ==
    /\ Calls("write_full") <= 1
    /\ Calls("write_full") = 1 =>
          /\ Calls("transcribe") = num_chunks
          /\ Calls("export") = num_chunks
          /\ Calls("write") = num_chunks
          /\ \A k \in 1..num_chunks :
                k \in DOMAIN audioFiles /\ k \in DOMAIN textFiles
          /\ Len(full_transcript_parts) = num_chunks
    /\ (Loaded /\ pc # "plan" /\ duration_ms = 0) =>
          /\ Calls("transcribe") = 0
          /\ audioFiles = <<>> /\ textFiles = <<>>
          /\ pc = "done" => fullFile = <<>>
          /\ pc = "raised" => error.stage = "merge"

====
